---- MODULE Spec2Model ----
(***************************************************************************)
(* Model of mentat's patch engine: Replacement / FileEdit                   *)
(* (src/mentat/parsers/file_edit.py).                                       *)
(*                                                                          *)
(* A FileEdit holds a list of Replacements.  resolve_conflicts sorts the    *)
(* list and truncates overlapping ranges pair by pair;                      *)
(* get_updated_file_lines sorts the list and splices every Replacement      *)
(* into the line buffer it is given.  Lines are strings; line numbers are   *)
(* 0-based as in the source, sequences are 1-based as in TLA+.              *)
(***************************************************************************)
EXTENDS Integers, Sequences, FiniteSets, TLC

\* ------------------------------------------------------------------ bounds
MaxReps == 2
MaxLine == 3
MaxBuf  == 3
MaxBlock == 3
MaxEdits == 3

\* Distinct line contents: lines of the file on disk, and two lines per
\* emitted Replacement.
BufferLine == <<"a", "b", "c", "d", "e", "f">>
FirstLine  == <<"N1", "N2", "N3", "N4", "N5", "N6">>
SecondLine == <<"M1", "M2", "M3", "M4", "M5", "M6">>

\* `earliest_line = None` of get_updated_file_lines.
None == -1

VARIABLES
    replacements,   \* FileEdit.replacements
    file_lines,     \* the list object the caller passes to get_updated_file_lines
    result,         \* the list get_updated_file_lines returned (<<>> before / on raise)
    pc,             \* "start", "resolving", "resolved", "applied", "raised"
    index,          \* resolve_conflicts: position of `replacement` (1-based)
    other,          \* resolve_conflicts: position of `other` (1-based)
    resolved,       \* resolve_conflicts has run to its end
    emitted,        \* history: the Replacement list as first built
    stored_lines,   \* history: the caller's buffer as first read
    header,         \* parser: <<old name, new name>> of the patch block header
    file_edit,      \* parser: the FileEdit built from the header (replacements apart)
    code_block,     \* parser: the lines of the code block given to _add_code_block
    error,          \* parser: what _add_code_block returned ("" for success)
    disk,           \* writer: path -> the lines read_file would return, or Absent
    cfm_file_lines, \* writer: CodeFileManager.file_lines, path -> lines or NotRead
    include_files,  \* writer: code_context.include_files
    file_edits,     \* writer: the batch given to write_changes_to_files
    processed,      \* history: what became of each FileEdit of the batch so far
    checked,        \* history: the last call of is_valid and what it returned
    answers,        \* filter: the operator's answers to "Keep this change?", in order
    kept,           \* filter: <<what filter_replacements returned>>, <<>> before
    strings_to_print, \* printer: StreamingPrinter.strings_to_print
    chars_remaining,  \* printer: StreamingPrinter.chars_remaining
    finishing,      \* printer: StreamingPrinter.finishing
    shutdown,       \* printer: StreamingPrinter.shutdown
    next_string,    \* printer: the entry print_lines is sending (<<>> when none)
    sent,           \* history: the entries given to stream.send, in order
    queued,         \* history: the entries add_string queued, in order
    checksum,       \* message: what get_checksum returns now
    feature_checksum, \* message: CodeFeature._feature_checksum (NoValue for None)
    code_message,   \* message: CodeFeature._code_message (NoValue for None)
    returned,       \* message: <<what the last get_code_message returned>>
    calls,          \* message: the number of calls of get_code_message so far
    ctags,          \* intervals: the tags get_ctags gives for the file
    n_lines,        \* intervals: the number of lines read_file gives for the file
    min_lines,      \* intervals: the argument min_lines (NoValue for None)
    level,          \* intervals: feature.level
    features        \* intervals: what split_file_into_intervals returned

edit_vars == <<replacements, file_lines, result, pc, index, other, resolved,
               emitted, stored_lines>>

parser_vars == <<header, file_edit, code_block, error>>

writer_vars == <<disk, cfm_file_lines, include_files, file_edits, processed, checked>>

filter_vars == <<answers, kept>>

printer_vars == <<strings_to_print, chars_remaining, finishing, shutdown,
                  next_string, sent, queued>>

message_vars == <<checksum, feature_checksum, code_message, returned, calls>>

interval_vars == <<ctags, n_lines, min_lines, level, features>>

late_vars == <<filter_vars, printer_vars, message_vars, interval_vars>>

vars == <<edit_vars, parser_vars, writer_vars, late_vars>>

\* ----------------------------------------------------------------- helpers
Min(a, b) == IF a < b THEN a ELSE b

Reverse(s) == [i \in 1..Len(s) |-> s[Len(s) + 1 - i]]

\* Python slice lines[s:e] for 0 <= s, 0 <= e.
PySlice(lines, s, e) == SubSeq(lines, Min(s, Len(lines)) + 1, Min(e, Len(lines)))

\* [""] * n
RECURSIVE EmptyLines(_)
EmptyLines(n) == IF n <= 0 THEN <<>> ELSE <<"">> \o EmptyLines(n - 1)

\* Replacement(starting_line, ending_line, new_lines)
Replacement(s, e, n) == [starting_line |-> s, ending_line |-> e, new_lines |-> n]

\* Replacement.__lt__
Lt(self, oth) ==
    \/ self.ending_line < oth.ending_line
    \/ /\ self.ending_line = oth.ending_line
       /\ self.starting_line < oth.ending_line

\* ------------------------------------------------- list.sort(reverse=True)
\* CPython's list.sort on a list shorter than 64 elements: the list is
\* reversed, the leading run is found (and reversed when strictly
\* descending), the remaining elements are placed by binary insertion, and
\* the list is reversed again.  Only __lt__ is consulted.
RECURSIVE RunEnd(_, _, _)
RunEnd(a, k, desc) ==
    IF k > Len(a) THEN k - 1
    ELSE IF Lt(a[k], a[k - 1]) = desc THEN RunEnd(a, k + 1, desc)
    ELSE k - 1

CountRun(a) ==
    LET desc == Lt(a[2], a[1])
    IN  [n |-> RunEnd(a, 3, desc), descending |-> desc]

ReversePrefix(a, n) == [i \in 1..Len(a) |-> IF i <= n THEN a[n + 1 - i] ELSE a[i]]

RECURSIVE BinarySearch(_, _, _, _)
BinarySearch(a, pivot, l, r) ==
    IF l >= r THEN l
    ELSE LET p == l + ((r - l) \div 2)
         IN  IF Lt(pivot, a[p]) THEN BinarySearch(a, pivot, l, p)
             ELSE BinarySearch(a, pivot, p + 1, r)

InsertAt(a, start, pos) ==
    [i \in 1..Len(a) |->
        IF i < pos THEN a[i]
        ELSE IF i = pos THEN a[start]
        ELSE IF i <= start THEN a[i - 1]
        ELSE a[i]]

RECURSIVE BinarySort(_, _)
BinarySort(a, start) ==
    IF start > Len(a) THEN a
    ELSE BinarySort(InsertAt(a, start, BinarySearch(a, a[start], 1, start)), start + 1)

ForwardSort(a) ==
    IF Len(a) < 2 THEN a
    ELSE LET run == CountRun(a)
             b   == IF run.descending THEN ReversePrefix(a, run.n) ELSE a
         IN  BinarySort(b, run.n + 1)

\* A sort that leaves the list in the order given.
SortSkipped(reps) == reps

SortReverse(reps) == Reverse(ForwardSort(Reverse(reps)))

\* --------------------------------------------------------- resolve_conflicts
\* The test of the inner loop: `other` overlaps `replacement`.
Overlap(o, r) ==
    /\ o.ending_line > r.starting_line
    /\ o.starting_line < r.ending_line

\* Truncation at the end of `replacement` instead of its start.
TruncateAtEnd(o, r) ==
    LET e == r.ending_line
    IN  [o EXCEPT !.ending_line = e, !.starting_line = Min(o.starting_line, e)]

\* Truncation without the clamp of starting_line.
TruncateNoClamp(o, r) ==
    [o EXCEPT !.ending_line = r.starting_line]

\* Truncation that discards the content of a Replacement emptied by it.
TruncateDropsLines(o, r) ==
    LET e == r.starting_line
    IN  [o EXCEPT !.ending_line = e, !.starting_line = Min(o.starting_line, e),
                  !.new_lines = IF o.starting_line >= e THEN <<>> ELSE @]

\* The body of the overlap branch: truncate `other` at the start of `replacement`.
Truncate(o, r) ==
    LET e == r.starting_line
    IN  [o EXCEPT !.ending_line = e, !.starting_line = Min(o.starting_line, e)]

\* ----------------------------------------------------- get_updated_file_lines
\* Guard that compares the start of the range instead of its end.
RaisesOverlapOnStart(earliest_line, r) ==
    earliest_line # None /\ r.starting_line > earliest_line

\* Line 199: the guard of the overlap error.
RaisesOverlap(earliest_line, r) ==
    earliest_line # None /\ r.ending_line > earliest_line

\* Padding that forgets to subtract the current length.
PadByEndingLine(lines, r) ==
    IF r.ending_line > Len(lines)
    THEN lines \o EmptyLines(r.ending_line)
    ELSE lines

\* Padding that adds one empty line too many.
PadOneMore(lines, r) ==
    IF r.ending_line > Len(lines)
    THEN lines \o EmptyLines(r.ending_line - Len(lines) + 1)
    ELSE lines

\* Lines 202-203: `file_lines += [""] * (ending_line - len(file_lines))`.
Pad(lines, r) ==
    IF r.ending_line > Len(lines)
    THEN lines \o EmptyLines(r.ending_line - Len(lines))
    ELSE lines

\* Splice that also drops the line at ending_line (slice taken one too far).
SpliceOffByOne(lines, r) ==
    SubSeq(lines, 1, r.starting_line)
    \o r.new_lines
    \o SubSeq(lines, r.ending_line + 2, Len(lines))

\* Lines 205-209: file_lines[:starting_line] + new_lines + file_lines[ending_line:].
Splice(lines, r) ==
    SubSeq(lines, 1, r.starting_line)
    \o r.new_lines
    \o SubSeq(lines, r.ending_line + 1, Len(lines))

\* The loop over the sorted list.  cur is the local name file_lines, caller
\* is the list object that was passed in: both are the same object until the
\* first splice rebinds the local name, so the `+=` of the first iteration
\* extends the caller's list in place.
RECURSIVE UpdateLoop(_, _, _, _, _)
UpdateLoop(reps, k, cur, caller, earliest_line) ==
    IF k > Len(reps) THEN [raised |-> FALSE, lines |-> cur, caller |-> caller]
    ELSE LET r == reps[k]
         IN  IF RaisesOverlap(earliest_line, r)
             THEN [raised |-> TRUE, lines |-> <<>>, caller |-> caller]
             ELSE LET padded == Pad(cur, r)
                  IN  UpdateLoop(reps, k + 1, Splice(padded, r),
                                 IF k = 1 THEN padded ELSE caller,
                                 r.starting_line)

\* The loop started on the buffer with one empty line added.
GetUpdatedOnPadded(reps, lines) ==
    UpdateLoop(SortReverse(reps), 1, lines \o <<"">>, lines, None)

GetUpdatedFileLines(reps, lines) == UpdateLoop(SortReverse(reps), 1, lines, lines, None)

\* -------------------------------------------------------------------- inputs
Ranges == {<<s, e>> \in (0..MaxLine) \X (0..MaxLine) : s <= e}

Buffer(n) == SubSeq(BufferLine, 1, n)

\* The new_lines of the k-th emitted Replacement: two fresh lines, one fresh
\* line or none, or the lines its range covers in the buffer.
Styles == {"block", "mixed", "same"}

NewLines(style, k, rng, buf) ==
    CASE style = "block" -> <<FirstLine[k], SecondLine[k]>>
      [] style = "mixed" -> IF k % 2 = 1 THEN <<FirstLine[k]>> ELSE <<>>
      [] style = "same"  -> PySlice(buf, rng[1], rng[2])

\* FileEdit(file_path, [], is_creation, is_deletion, rename_file_path); the
\* replacements live in the variable of that name.
FileEdit(path, creation, deletion, rename) ==
    [file_path |-> path, is_creation |-> creation, is_deletion |-> deletion,
     rename_file_path |-> rename]

\* `rename_file_path = None`
NoPath == "None"

\* The parser is not running.
ParserIdle ==
    /\ header = <<>>
    /\ file_edit = FileEdit("f.py", FALSE, FALSE, NoPath)
    /\ code_block = <<>>
    /\ error = ""

\* No file is on disk or in the session and no batch is queued.
WriterIdle ==
    /\ disk = <<>>
    /\ cfm_file_lines = <<>>
    /\ include_files = {}
    /\ file_edits = <<>>
    /\ processed = <<>>
    /\ checked = <<>>

\* filter_replacements has not been called.
FilterIdle ==
    /\ answers = <<>>
    /\ kept = <<>>

\* StreamingPrinter.__init__, lines 10-14.
PrinterIdle ==
    /\ strings_to_print = <<>>
    /\ chars_remaining = 0
    /\ finishing = FALSE
    /\ shutdown = FALSE
    /\ next_string = <<>>
    /\ sent = <<>>
    /\ queued = <<>>

\* `None` of _feature_checksum, _code_message and min_lines.
NoValue == 0

\* A CodeFeature that has cached nothing, lines 201-202.
MessageIdle ==
    /\ checksum = NoValue
    /\ feature_checksum = NoValue
    /\ code_message = NoValue
    /\ returned = <<>>
    /\ calls = 0

\* split_file_into_intervals has not been called.
IntervalIdle ==
    /\ ctags = <<>>
    /\ n_lines = 0
    /\ min_lines = NoValue
    /\ level = "code"
    /\ features = <<>>

LateIdle == FilterIdle /\ PrinterIdle /\ MessageIdle /\ IntervalIdle

Init ==
    \E n \in 0..MaxReps, b \in 0..MaxBuf, style \in Styles :
      \E rs \in [1..n -> Ranges] :
        /\ replacements = [k \in 1..n |->
                             Replacement(rs[k][1], rs[k][2],
                                         NewLines(style, k, rs[k], Buffer(b)))]
        /\ emitted = replacements
        /\ file_lines = Buffer(b)
        /\ stored_lines = file_lines
        /\ result = <<>>
        /\ pc = "start"
        /\ index = 0
        /\ other = 0
        /\ resolved = FALSE
        /\ ParserIdle
        /\ WriterIdle
        /\ LateIdle

\* ------------------------------------------------------------------- actions
\* resolve_conflicts, line 175 and the entry into the loops.
ResolveStart ==
    /\ pc = "start"
    /\ replacements' = SortReverse(replacements)
    /\ IF Len(replacements) < 2
       THEN /\ pc' = "resolved"
            /\ resolved' = TRUE
            /\ index' = 0
            /\ other' = 0
       ELSE /\ pc' = "resolving"
            /\ resolved' = FALSE
            /\ index' = 1
            /\ other' = 2
    /\ UNCHANGED <<file_lines, result, emitted, stored_lines>>
    /\ UNCHANGED parser_vars
    /\ UNCHANGED writer_vars
    /\ UNCHANGED late_vars

\* resolve_conflicts, one pass of the inner loop body (lines 177-193).
ResolveStep ==
    /\ pc = "resolving"
    /\ LET r == replacements[index]
           o == replacements[other]
           n == Len(replacements)
       IN  /\ replacements' = IF Overlap(o, r)
                              THEN [replacements EXCEPT ![other] = Truncate(o, r)]
                              ELSE replacements
           /\ IF other < n
              THEN /\ index' = index
                   /\ other' = other + 1
                   /\ pc' = "resolving"
                   /\ resolved' = FALSE
              ELSE IF index + 2 <= n
              THEN /\ index' = index + 1
                   /\ other' = index + 2
                   /\ pc' = "resolving"
                   /\ resolved' = FALSE
              ELSE /\ index' = 0
                   /\ other' = 0
                   /\ pc' = "resolved"
                   /\ resolved' = TRUE
    /\ UNCHANGED <<file_lines, result, emitted, stored_lines>>
    /\ UNCHANGED parser_vars
    /\ UNCHANGED writer_vars
    /\ UNCHANGED late_vars

\* get_updated_file_lines(file_lines), lines 195-210, called on the list as
\* built or after resolve_conflicts.
GetUpdated ==
    /\ pc \in {"start", "resolved"}
    /\ LET out == GetUpdatedFileLines(replacements, file_lines)
       IN  /\ replacements' = SortReverse(replacements)
           /\ file_lines' = out.caller
           /\ result' = out.lines
           /\ pc' = IF out.raised THEN "raised" ELSE "applied"
    /\ UNCHANGED <<index, other, resolved, emitted, stored_lines>>
    /\ UNCHANGED parser_vars
    /\ UNCHANGED writer_vars
    /\ UNCHANGED late_vars

Next == ResolveStart \/ ResolveStep \/ GetUpdated

Spec == Init /\ [][Next]_vars

\* ================================================================== parser
\* UnifiedDiffParser (src/mentat/parsers/unified_diff_parser.py).  A line of
\* a patch is <<first character, rest of the line>>, the empty line is <<>>;
\* the lines of the model carry no blanks around a delimiter, so that
\* line.strip() is the line itself.
MidChange == <<"@", "@">>
EndChange == <<"@", "@end">>

StartsWith(line, c) == line # <<>> /\ line[1] = c

\* line[1:]
Content(line) == IF line = <<>> THEN "" ELSE line[2]

\* ----------------------------------------------------------- _special_block
DevNull == "/dev/null"

\* Lines 91-107, on the names lines[0][4:] and lines[1][4:] of the header.
SpecialBlock(old_name, new_name) ==
    LET is_creation == old_name = DevNull
        is_deletion == new_name = DevNull
        file_name   == IF is_creation THEN new_name ELSE old_name
        rename      == IF file_name = new_name \/ is_deletion THEN NoPath ELSE new_name
    IN  FileEdit(file_name, is_creation, is_deletion, rename)

\* ----------------------------------------------------------- _add_code_block
\* The test of lines 143-149 with the emptiness test negated.
InvalidLineNegated(line) ==
    /\ line = <<>>
    /\ ~StartsWith(line, "+")
    /\ ~StartsWith(line, "-")
    /\ ~StartsWith(line, " ")

\* Lines 143-149: a non-empty line that starts with none of the markers.
InvalidLine(line) ==
    /\ line # <<>>
    /\ ~StartsWith(line, "+")
    /\ ~StartsWith(line, "-")
    /\ ~StartsWith(line, " ")

\* Lines 130-155: split the block into changes at the delimiters.
RECURSIVE SplitChanges(_, _, _, _)
SplitChanges(lines, k, changes, cur_lines) ==
    IF k > Len(lines)
    THEN [invalid |-> FALSE,
          changes |-> IF cur_lines # <<>> THEN Append(changes, cur_lines) ELSE changes]
    ELSE LET line == lines[k]
         IN  IF line = EndChange
             THEN [invalid |-> FALSE, changes |-> Append(changes, cur_lines)]
             ELSE IF line = MidChange
             THEN SplitChanges(lines, k + 1, Append(changes, cur_lines), <<>>)
             ELSE IF InvalidLine(line)
             THEN [invalid |-> TRUE, changes |-> changes]
             ELSE SplitChanges(lines, k + 1, changes, Append(cur_lines, line))

\* Lines 161-164: the removal and context lines of a change, markers stripped.
RECURSIVE SearchLines(_, _)
SearchLines(change, k) ==
    IF k > Len(change) THEN <<>>
    ELSE (IF StartsWith(change[k], "-") \/ StartsWith(change[k], " ")
          THEN <<Content(change[k])>> ELSE <<>>)
         \o SearchLines(change, k + 1)

\* Line 168: the Replacement of a change without search lines.
AtFileStart(change) ==
    Replacement(0, 0, [k \in 1..Len(change) |-> Content(change[k])])

\* matching_index(file_lines, search_lines): the lowest index at which the
\* search lines occur in the buffer line for line, or -1.
MatchingIndex(lines, search) ==
    LET hits == {i \in 0..(Len(lines) - Len(search)) :
                    SubSeq(lines, i + 1, i + Len(search)) = search}
    IN  IF hits = {} THEN -1
        ELSE CHOOSE i \in hits : \A j \in hits : i <= j

\* Lines 199-200 without the Replacement of a run still open at the end.
CloseRunNever(cur_start, cur_index, cur_additions) == <<>>

\* Lines 199-200: the Replacement of the run that is open at the end, if any.
CloseRun(cur_start, cur_index, cur_additions) ==
    IF cur_start # None
    THEN <<Replacement(cur_start, cur_index, cur_additions)>>
    ELSE <<>>

\* Lines 182-200: the walk over the lines of a change anchored at start_index.
RECURSIVE Walk(_, _, _, _, _)
Walk(change, k, cur_start, cur_additions, cur_index) ==
    IF k > Len(change) THEN CloseRun(cur_start, cur_index, cur_additions)
    ELSE LET line == change[k]
         IN  IF StartsWith(line, " ")
             THEN (IF cur_start # None
                   THEN <<Replacement(cur_start, cur_index, cur_additions)>>
                   ELSE <<>>)
                  \o Walk(change, k + 1, None, <<>>, cur_index + 1)
             ELSE IF StartsWith(line, "+")
             THEN Walk(change, k + 1,
                       IF cur_start = None THEN cur_index ELSE cur_start,
                       Append(cur_additions, Content(line)), cur_index)
             ELSE IF StartsWith(line, "-")
             THEN Walk(change, k + 1,
                       IF cur_start = None THEN cur_index ELSE cur_start,
                       cur_additions, cur_index + 1)
             ELSE Walk(change, k + 1, cur_start, cur_additions, cur_index)

\* Lines 158-200: the loop over the changes; found is the local list
\* `replacements`, which is still held when the loop returns the error.
RECURSIVE CollectReplacements(_, _, _, _)
CollectReplacements(lines, changes, c, found) ==
    IF c > Len(changes) THEN [error |-> "", replacements |-> found]
    ELSE LET change == changes[c]
             search == SearchLines(change, 1)
         IN  IF search = <<>>
             THEN CollectReplacements(lines, changes, c + 1,
                                      Append(found, AtFileStart(change)))
             ELSE LET start_index == MatchingIndex(lines, search)
                  IN  IF start_index = -1
                      THEN [error |-> "Original lines not found", replacements |-> found]
                      ELSE CollectReplacements(lines, changes, c + 1,
                               found \o Walk(change, 1, None, <<>>, start_index))

\* Lines 125-200: the error returned and the local list at that point.
ParseCodeBlock(lines, block) ==
    LET split == SplitChanges(block, 1, <<>>, <<>>)
    IN  IF split.invalid
        THEN [error |-> "Invalid diff format given", replacements |-> <<>>]
        ELSE CollectReplacements(lines, split.changes, 1, <<>>)

\* The list of the FileEdit extended whatever the parse returned.
ExtendedAlways(reps, parsed) == reps \o parsed.replacements

\* Line 202, reached only without error: file_edit.replacements.extend(replacements).
Extended(reps, parsed) ==
    IF parsed.error = "" THEN reps \o parsed.replacements ELSE reps

\* -------------------------------------------------------------- parser inputs
Names == {DevNull, "f.py", "g.py"}

\* The i-th line of a block, by kind: context or removal of a buffer line,
\* addition of a fresh line, empty line, delimiter, or a line without marker.
Kinds == {"ctx a", "ctx b", "rem a", "rem b", "add", "empty", "mid", "end", "bad"}

PatchLine(kind, i) ==
    CASE kind = "ctx a" -> <<" ", "a">>
      [] kind = "ctx b" -> <<" ", "b">>
      [] kind = "rem a" -> <<"-", "a">>
      [] kind = "rem b" -> <<"-", "b">>
      [] kind = "add"   -> <<"+", FirstLine[i]>>
      [] kind = "empty" -> <<>>
      [] kind = "mid"   -> MidChange
      [] kind = "end"   -> EndChange
      [] kind = "bad"   -> <<"x", "bad">>

\* code_block.split("\n") has at least one line.
Blocks ==
    UNION {{[i \in 1..n |-> PatchLine(ks[i], i)] : ks \in [1..n -> Kinds]} : n \in 1..MaxBlock}

EditIdle ==
    /\ result = <<>>
    /\ index = 0
    /\ other = 0
    /\ resolved = FALSE

\* Either a header is about to be read, or a FileEdit of f.py that holds a
\* Replacement of an earlier block is about to receive a code block.
InitParser ==
    /\ EditIdle
    /\ WriterIdle
    /\ LateIdle
    /\ code_block = <<>>
    /\ error = ""
    /\ \E b \in 0..MaxBuf :
         /\ file_lines = Buffer(b)
         /\ stored_lines = file_lines
    /\ \/ /\ pc = "header"
          /\ \E old_name, new_name \in Names : header = <<old_name, new_name>>
          /\ file_edit = FileEdit("f.py", FALSE, FALSE, NoPath)
          /\ replacements = <<>>
          /\ emitted = <<>>
       \/ /\ pc = "code"
          /\ header = <<"f.py", "f.py">>
          /\ file_edit = SpecialBlock("f.py", "f.py")
          /\ replacements = <<Replacement(0, 0, <<"M1">>)>>
          /\ emitted = replacements

\* _special_block on the header.
ReadHeader ==
    /\ pc = "header"
    /\ file_edit' = SpecialBlock(header[1], header[2])
    /\ replacements' = <<>>
    /\ emitted' = <<>>
    /\ pc' = "code"
    /\ UNCHANGED <<file_lines, result, index, other, resolved, stored_lines,
                   header, code_block, error>>
    /\ UNCHANGED writer_vars
    /\ UNCHANGED late_vars

\* _add_code_block on a code block.
AddCodeBlock ==
    /\ pc = "code"
    /\ \E block \in Blocks :
         LET parsed == ParseCodeBlock(file_lines, block)
         IN  /\ code_block' = block
             /\ error' = parsed.error
             /\ replacements' = Extended(replacements, parsed)
    /\ pc' = "parsed"
    /\ UNCHANGED <<file_lines, result, index, other, resolved, stored_lines,
                   emitted, header, file_edit>>
    /\ UNCHANGED writer_vars
    /\ UNCHANGED late_vars

\* resolve_conflicts as one call (file_edit.py lines 174-193): the sort, then
\* the two loops from the pair (i, j).
RECURSIVE ResolveFrom(_, _, _)
ResolveFrom(reps, i, j) ==
    IF i > Len(reps) THEN reps
    ELSE IF j > Len(reps) THEN ResolveFrom(reps, i + 1, i + 2)
    ELSE ResolveFrom(IF Overlap(reps[j], reps[i])
                     THEN [reps EXCEPT ![j] = Truncate(reps[j], reps[i])]
                     ELSE reps,
                     i, j + 1)

ResolveConflicts(reps) == ResolveFrom(SortReverse(reps), 1, 2)

\* The FileEdit of a block parsed without error is applied to the buffer:
\* resolve_conflicts, then get_updated_file_lines on the lines of the file.
ApplyParsed ==
    /\ pc = "parsed"
    /\ error = ""
    /\ LET settled == ResolveConflicts(replacements)
           out     == GetUpdatedFileLines(settled, file_lines)
       IN  /\ replacements' = SortReverse(settled)
           /\ file_lines' = out.caller
           /\ result' = out.lines
           /\ pc' = IF out.raised THEN "raised" ELSE "applied"
    /\ resolved' = TRUE
    /\ UNCHANGED <<index, other, emitted, stored_lines>>
    /\ UNCHANGED parser_vars
    /\ UNCHANGED writer_vars
    /\ UNCHANGED late_vars

NextParser == ReadHeader \/ AddCodeBlock \/ ApplyParsed

SpecParser == InitParser /\ [][NextParser]_vars

\* ================================================================== writer
\* FileEdit.is_valid (src/mentat/parsers/file_edit.py) and
\* CodeFileManager.write_changes_to_files (src/mentat/code_file_manager.py).
\* read_file returns f.read().split("\n"), which is never the empty list:
\* the empty tuple stands for a path without a file, and for a path that
\* CodeFileManager.file_lines does not hold.
Absent == <<>>

NotRead == <<>>

Exists(d, path) == d[path] # Absent

\* "\n".join(lines) written to a file and read by read_file.
ReadBack(lines) == IF lines = <<>> THEN <<"">> ELSE lines

\* ------------------------------------------------------------------ is_valid
\* Lines 73-98: what is_valid returns, and the FileEdit as it leaves it.
IsValid(e, d, c) ==
    LET ok == IF e.is_creation
              THEN ~Exists(d, e.file_path)
              ELSE Exists(d, e.file_path) /\ c[e.file_path] # NotRead
    IN  [ok   |-> ok,
         edit |-> IF ok /\ e.rename_file_path # NoPath /\ Exists(d, e.rename_file_path)
                  THEN [e EXCEPT !.rename_file_path = NoPath]
                  ELSE e]

\* ---------------------------------------------------- write_changes_to_files
CreateExisting == "raised: create existing file"

EditMissing == "raised: edit non-existent file"

RenameExisting == "raised: rename to existing file"

Overlapping == "raised: overlapping replacements"

KeyMissing == "raised: KeyError"

Raises == {CreateExisting, EditMissing, RenameExisting, Overlapping, KeyMissing}

\* What one pass of the loop did: how it ended, the questions put to the
\* operator, the path of the FileEdit, and the files and the session after it.
Pass(outcome, asked, path, d, c, inc) ==
    [outcome |-> outcome, asked |-> asked, file_path |-> path,
     disk |-> d, file_lines |-> c, include_files |-> inc]

\* Lines 145-152: the buffer is rewritten when the updated lines differ from
\* stored_lines, the list get_updated_file_lines was given.
WriteUpdated(reps, path, stored, asked, d, c, inc) ==
    LET out == GetUpdatedFileLines(reps, stored)
    IN  IF out.raised THEN Pass(Overlapping, asked, path, d, c, inc)
        ELSE IF out.lines # out.caller
        THEN Pass("written", asked, path,
                  [d EXCEPT ![path] = ReadBack(out.lines)],
                  [c EXCEPT ![path] = d[path]], inc)
        ELSE Pass("unchanged", asked, path, d, c, inc)

\* Lines 131-143: the rename, and _rename_file, lines 59-65.
RenameFile(e, reps, stored, asked, d, c, inc) ==
    LET path   == e.file_path
        rename == e.rename_file_path
    IN  IF rename = NoPath
        THEN WriteUpdated(reps, path, stored, asked, d, c, inc)
        ELSE IF Exists(d, rename)
        THEN Pass(RenameExisting, asked, path, d, c, inc)
        ELSE WriteUpdated(reps, rename, stored, asked,
                          [d EXCEPT ![rename] = d[path], ![path] = Absent],
                          c, (inc \cup {rename}) \ {path})

\* The changed file is rewritten whatever the operator answers.
DeclinedNever(stored, current, continue_yes) == FALSE

\* Lines 116-129: the file changed and the operator does not continue.
Declined(stored, current, continue_yes) ==
    stored # current /\ ~continue_yes

\* Lines 114-129: the stored lines against the lines read now; read_file
\* puts the lines it read into file_lines.
CheckStale(e, reps, asked, d, c, inc, continue_yes) ==
    LET path == e.file_path
    IN  IF e.is_creation
        THEN RenameFile(e, reps, <<>>, asked, d, c, inc)
        ELSE IF c[path] = NotRead
        THEN Pass(KeyMissing, asked, path, d, c, inc)
        ELSE LET stored == c[path]
                 current      == d[path]
                 read         == [c EXCEPT ![path] = current]
                 questions    == IF stored # current
                                 THEN asked \cup {"continue"} ELSE asked
             IN  IF Declined(stored, current, continue_yes)
                 THEN Pass("declined", questions, path, d, read, inc)
                 ELSE RenameFile(e, reps, stored, questions, d, read, inc)

\* The file of a deletion is removed whatever the operator answers.
DeleteFileUnasked(e, reps, d, c, inc, delete_yes, continue_yes) ==
    LET path == e.file_path
    IN  IF ~e.is_deletion
        THEN CheckStale(e, reps, {}, d, c, inc, continue_yes)
        ELSE Pass("deleted", {"delete"}, path,
                  [d EXCEPT ![path] = Absent],
                  [c EXCEPT ![path] = d[path]], inc \ {path})

\* Lines 97-112: the deletion, and _delete_file, lines 54-57.
DeleteFile(e, reps, d, c, inc, delete_yes, continue_yes) ==
    LET path == e.file_path
    IN  IF ~e.is_deletion
        THEN CheckStale(e, reps, {}, d, c, inc, continue_yes)
        ELSE IF delete_yes
        THEN Pass("deleted", {"delete"}, path,
                  [d EXCEPT ![path] = Absent],
                  [c EXCEPT ![path] = d[path]], inc \ {path})
        ELSE CheckStale(e, reps, {"delete"}, d, c, inc, continue_yes)

\* Lines 76-152: one pass of the loop, on one FileEdit; _create_file, lines
\* 46-52, writes the empty text.
WriteChanges(e, reps, d, c, inc, delete_yes, continue_yes) ==
    LET path == e.file_path
    IN  IF e.is_creation
        THEN IF Exists(d, path)
             THEN Pass(CreateExisting, {}, path, d, c, inc)
             ELSE DeleteFile(e, reps, [d EXCEPT ![path] = ReadBack(<<>>)], c,
                             inc \cup {path}, delete_yes, continue_yes)
        ELSE IF ~Exists(d, path)
        THEN Pass(EditMissing, {}, path, d, c, inc)
        ELSE IF path \notin inc
        THEN Pass("not in context", {}, path, d, c, inc)
        ELSE DeleteFile(e, reps, d, c, inc, delete_yes, continue_yes)

\* -------------------------------------------------------------- writer inputs
Paths == {DevNull, "f.py", "g.py", "h.py"}

\* A path at the start: without file, read and unchanged, read and changed
\* on disk since, read and taken out of the context since, or never read.
OnDisk(situation) ==
    CASE situation = "absent"   -> Absent
      [] situation = "tracked"  -> <<BufferLine[1]>>
      [] situation = "stale"    -> <<BufferLine[2]>>
      [] situation = "excluded" -> <<BufferLine[1]>>
      [] situation = "unread"   -> <<"">>

InFileLines(situation) ==
    IF situation \in {"absent", "unread"} THEN NotRead ELSE <<BufferLine[1]>>

InContext(situation) == situation \in {"tracked", "stale"}

Situations ==
    [p \in Paths |->
        CASE p = DevNull -> {"absent", "unread"}
          [] p = "f.py"  -> {"absent", "tracked", "stale", "excluded"}
          [] p = "g.py"  -> {"absent", "tracked", "unread"}
          [] p = "h.py"  -> {"tracked", "stale"}]

\* The headers the FileEdits of a batch are built from.
Headers == (Names \X Names) \cup {<<"h.py", "h.py">>}

\* The Replacements of a FileEdit: a first line for a new file, none for a
\* deletion, the first line replaced otherwise.
ReplacementsFor(e) ==
    IF e.is_creation THEN <<Replacement(0, 0, <<FirstLine[1]>>)>>
    ELSE IF e.is_deletion THEN <<>>
    ELSE <<Replacement(0, 1, <<FirstLine[1]>>)>>

\* A code block under the header of a deletion adds Replacements to the
\* FileEdit of the deletion as to any other.
ReplacementChoices(e) ==
    {ReplacementsFor(e)}
    \cup (IF e.is_deletion /\ ~e.is_creation
          THEN {<<Replacement(0, 1, <<FirstLine[1]>>)>>}
          ELSE {})

InitWriter ==
    /\ EditIdle
    /\ ParserIdle
    /\ LateIdle
    /\ replacements = <<>>
    /\ file_lines = <<>>
    /\ emitted = <<>>
    /\ stored_lines = <<>>
    /\ pc = "filter"
    /\ \E world \in [Paths -> {"absent", "tracked", "stale", "excluded", "unread"}] :
         /\ \A p \in Paths : world[p] \in Situations[p]
         /\ disk = [p \in Paths |-> OnDisk(world[p])]
         /\ cfm_file_lines = [p \in Paths |-> InFileLines(world[p])]
         /\ include_files = {p \in Paths : InContext(world[p])}
    /\ file_edits = <<>>
    /\ processed = <<>>
    /\ checked = <<>>

\* is_valid on a FileEdit for a file that has none in the batch yet; the
\* FileEdit joins the batch when is_valid returns True.
CheckValid ==
    /\ pc = "filter"
    /\ Len(file_edits) < MaxEdits
    /\ \E h \in Headers :
         LET e == SpecialBlock(h[1], h[2])
             v == IsValid(e, disk, cfm_file_lines)
         IN  /\ \A i \in 1..Len(file_edits) : file_edits[i].edit.file_path # e.file_path
             /\ checked' = <<[edit |-> e, ok |-> v.ok,
                              rename_file_path |-> v.edit.rename_file_path]>>
             /\ \E reps \in ReplacementChoices(e) :
                  file_edits' = IF v.ok
                                THEN Append(file_edits,
                                            [edit |-> v.edit, replacements |-> reps])
                                ELSE file_edits
    /\ UNCHANGED <<edit_vars, parser_vars, disk, cfm_file_lines, include_files,
                   processed>>
    /\ UNCHANGED late_vars

\* One pass of the loop of write_changes_to_files, on the next FileEdit of
\* the batch; a raise ends the call.
WriteNext ==
    /\ pc \in {"filter", "write"}
    /\ Len(processed) < Len(file_edits)
    /\ \E delete_yes, continue_yes \in BOOLEAN :
         LET i    == Len(processed) + 1
             item == file_edits[i]
             out  == WriteChanges(item.edit, item.replacements, disk,
                                  cfm_file_lines, include_files,
                                  delete_yes, continue_yes)
         IN  /\ disk' = out.disk
             /\ cfm_file_lines' = out.file_lines
             /\ include_files' = out.include_files
             /\ file_edits' = [file_edits EXCEPT ![i].edit.file_path = out.file_path]
             /\ processed' = Append(processed,
                    [outcome |-> out.outcome, asked |-> out.asked,
                     yes |-> {q \in out.asked :
                                 \/ q = "delete" /\ delete_yes
                                 \/ q = "continue" /\ continue_yes}])
             /\ pc' = IF out.outcome \in Raises THEN "raised"
                      ELSE IF i = Len(file_edits) THEN "done"
                      ELSE "write"
    /\ UNCHANGED <<replacements, file_lines, result, index, other, resolved,
                   emitted, stored_lines, parser_vars, checked>>
    /\ UNCHANGED late_vars

NextWriter == CheckValid \/ WriteNext

SpecWriter == InitWriter /\ [][NextWriter]_vars

\* ================================================================== filter
\* FileEdit.filter_replacements (src/mentat/parsers/file_edit.py).
\* Every proposed Replacement is kept, whatever the operator answers.
AcceptedAll(reps, keep, k) == SubSeq(reps, k, Len(reps))

\* Lines 136-153: the Replacements from the k-th on that the operator keeps.
RECURSIVE Accepted(_, _, _)
Accepted(reps, keep, k) ==
    IF k > Len(reps) THEN <<>>
    ELSE (IF keep[k] THEN <<reps[k]>> ELSE <<>>) \o Accepted(reps, keep, k + 1)

\* Lines 106-160: what filter_replacements returns, the FileEdit and its
\* Replacements as it leaves them, and whether the loop over the
\* Replacements was reached.
FilterReplacements(e, reps, create_yes, delete_yes, rename_yes, keep) ==
    IF e.is_creation /\ ~create_yes
    THEN [returned |-> FALSE, edit |-> e, replacements |-> reps, looped |-> FALSE]
    ELSE IF e.is_deletion /\ ~delete_yes
    THEN [returned |-> FALSE, edit |-> e, replacements |-> reps, looped |-> FALSE]
    ELSE LET rename == IF e.rename_file_path # NoPath /\ ~rename_yes
                       THEN NoPath ELSE e.rename_file_path
             new_replacements == Accepted(reps, keep, 1)
         IN  [returned     |-> \/ e.is_creation
                               \/ e.is_deletion
                               \/ rename # NoPath
                               \/ Len(new_replacements) > 0,
              edit         |-> [e EXCEPT !.rename_file_path = rename],
              replacements |-> new_replacements,
              looped       |-> TRUE]

\* The headers of the FileEdits that are filtered: an edit, a rename, a
\* creation and a deletion.
FilterHeaders ==
    {<<"f.py", "f.py">>, <<"f.py", "g.py">>, <<DevNull, "f.py">>, <<"f.py", DevNull>>}

\* A FileEdit with its proposed Replacements; the buffer is the file as
\* stored, empty for a creation.
InitFilter ==
    /\ \E n \in 0..MaxReps :
         \E rs \in [1..n -> Ranges] :
           replacements = [k \in 1..n |->
                             Replacement(rs[k][1], rs[k][2],
                                         NewLines("block", k, rs[k], <<>>))]
    /\ emitted = replacements
    /\ \E h \in FilterHeaders :
         /\ header = h
         /\ file_edit = SpecialBlock(h[1], h[2])
         /\ file_lines = IF h[1] = DevNull THEN <<>> ELSE Buffer(MaxBuf)
    /\ stored_lines = file_lines
    /\ EditIdle
    /\ pc = "proposed"
    /\ code_block = <<>>
    /\ error = ""
    /\ WriterIdle
    /\ LateIdle

\* filter_replacements with the operator's answers; a FileEdit for which it
\* returns False is dropped.
Filter ==
    /\ pc = "proposed"
    /\ \E create_yes, delete_yes, rename_yes \in BOOLEAN,
          keep \in [1..Len(replacements) -> BOOLEAN] :
         LET out == FilterReplacements(file_edit, replacements, create_yes,
                                       delete_yes, rename_yes, keep)
         IN  /\ file_edit' = out.edit
             /\ replacements' = out.replacements
             /\ answers' = IF out.looped THEN keep ELSE <<>>
             /\ kept' = <<out.returned>>
             /\ pc' = IF out.returned THEN "start" ELSE "dropped"
    /\ UNCHANGED <<file_lines, result, index, other, resolved, emitted,
                   stored_lines, header, code_block, error>>
    /\ UNCHANGED <<writer_vars, printer_vars, message_vars, interval_vars>>

NextFilter == Filter \/ GetUpdated

SpecFilter == InitFilter /\ [][NextFilter]_vars

\* ================================================================= printer
\* StreamingPrinter (src/mentat/streaming_printer.py).  A string is the
\* sequence of its characters; an entry of strings_to_print is
\* <<prefix, character, suffix>>, the character with the colour codes that
\* add_string attaches to it.  pc is the position of the print_lines task:
\* "created", "sending" (at `await stream.send`), "sleeping" (at
\* `await asyncio.sleep`) or "returned".
MaxChars == 3

\* colored(string, color): the string between the code of the colour and
\* the reset code; colored_string[:index] and colored_string[index + len:].
ColorPrefix(color) == IF color = "None" THEN "" ELSE "ESC[31m"

ColorSuffix(color) == IF color = "None" THEN "" ELSE "ESC[0m"

\* add_string returns early only on the empty string.
IgnoredOnlyEmpty(fin, string) == string = <<>>

\* Lines 17-21: the calls of add_string that return before queueing.
Ignored(fin, string) == fin \/ string = <<>>

\* Lines 22-29: list(string + end) with the codes on the first and the last.
Characters(string, end, color) ==
    LET text == string \o end
    IN  [i \in 1..Len(text) |->
            <<IF i = 1 THEN ColorPrefix(color) ELSE "",
              text[i],
              IF i = Len(text) THEN ColorSuffix(color) ELSE "">>]

\* Every call adds one to the count.
CountedOne(characters) == 1

\* Line 32: what add_string adds to chars_remaining.
Counted(characters) == Len(characters)

PrintedStrings == {<<>>, <<"x">>, <<"x", "y">>}

Ends == {<<>>, <<"\n">>}

Colors == {"None", "red"}

OthersIdle ==
    /\ EditIdle
    /\ ParserIdle
    /\ WriterIdle
    /\ replacements = <<>>
    /\ file_lines = <<>>
    /\ emitted = <<>>
    /\ stored_lines = <<>>

InitPrinter ==
    /\ OthersIdle
    /\ FilterIdle
    /\ PrinterIdle
    /\ MessageIdle
    /\ IntervalIdle
    /\ pc = "created"

\* add_string(string, end, color), lines 16-32, called while print_lines is
\* suspended or not running.
AddString ==
    /\ \E string \in PrintedStrings, end \in Ends, color \in Colors :
         IF Ignored(finishing, string)
         THEN UNCHANGED <<strings_to_print, chars_remaining, queued>>
         ELSE LET characters == Characters(string, end, color)
              IN  /\ Len(queued) + Len(characters) <= MaxChars
                  /\ strings_to_print' = strings_to_print \o characters
                  /\ chars_remaining' = chars_remaining + Counted(characters)
                  /\ queued' = queued \o characters
    /\ UNCHANGED <<finishing, shutdown, next_string, sent, pc>>
    /\ UNCHANGED <<replacements, file_lines, result, index, other, resolved,
                   emitted, stored_lines, parser_vars, writer_vars,
                   filter_vars, message_vars, interval_vars>>

\* print_lines from its start or from the sleep of line 51 to its next
\* await or its return: the loop test and lines 44-45 or 48-49.
Iterate ==
    /\ pc \in {"created", "sleeping"}
    /\ IF shutdown
       THEN /\ pc' = "returned"
            /\ UNCHANGED <<strings_to_print, next_string>>
       ELSE IF strings_to_print # <<>>
       THEN /\ next_string' = <<Head(strings_to_print)>>
            /\ strings_to_print' = Tail(strings_to_print)
            /\ pc' = "sending"
       ELSE IF finishing
       THEN /\ pc' = "returned"
            /\ UNCHANGED <<strings_to_print, next_string>>
       ELSE /\ pc' = "sleeping"
            /\ UNCHANGED <<strings_to_print, next_string>>
    /\ UNCHANGED <<chars_remaining, finishing, shutdown, sent, queued>>
    /\ UNCHANGED <<replacements, file_lines, result, index, other, resolved,
                   emitted, stored_lines, parser_vars, writer_vars,
                   filter_vars, message_vars, interval_vars>>

\* `await stream.send(next_string)` of line 46 completes; line 47, and on to
\* the sleep of line 51.
SendDone ==
    /\ pc = "sending"
    /\ sent' = sent \o next_string
    /\ next_string' = <<>>
    /\ chars_remaining' = chars_remaining - 1
    /\ pc' = "sleeping"
    /\ UNCHANGED <<strings_to_print, finishing, shutdown, queued>>
    /\ UNCHANGED <<replacements, file_lines, result, index, other, resolved,
                   emitted, stored_lines, parser_vars, writer_vars,
                   filter_vars, message_vars, interval_vars>>

\* wrap_it_up, lines 53-54.
WrapItUp ==
    /\ ~finishing
    /\ finishing' = TRUE
    /\ UNCHANGED <<strings_to_print, chars_remaining, shutdown, next_string,
                   sent, queued, pc>>
    /\ UNCHANGED <<replacements, file_lines, result, index, other, resolved,
                   emitted, stored_lines, parser_vars, writer_vars,
                   filter_vars, message_vars, interval_vars>>

\* shutdown_printer, lines 56-57.
ShutdownPrinter ==
    /\ ~shutdown
    /\ shutdown' = TRUE
    /\ UNCHANGED <<strings_to_print, chars_remaining, finishing, next_string,
                   sent, queued, pc>>
    /\ UNCHANGED <<replacements, file_lines, result, index, other, resolved,
                   emitted, stored_lines, parser_vars, writer_vars,
                   filter_vars, message_vars, interval_vars>>

NextPrinter == AddString \/ Iterate \/ SendDone \/ WrapItUp \/ ShutdownPrinter

SpecPrinter == InitPrinter /\ [][NextPrinter]_vars

\* The event loop runs a task that is ready: the print_lines task is
\* resumed when its sleep is over, and a send that was started completes.
SpecPrinterFair == SpecPrinter /\ WF_vars(Iterate) /\ WF_vars(SendDone)

\* ================================================================= message
\* CodeFeature.get_code_message (src/mentat/code_feature.py).  The values of
\* get_checksum are 1..MaxSums; the message _get_code_message builds is a
\* function of what the checksum digests, and stands as the checksum it was
\* built under.
MaxSums == 3

MaxCalls == 3

Checksums == 1..MaxSums

\* Line 206: the cache is not used.
Recompute(sum, stored, message) == sum # stored \/ message = NoValue

\* Lines 204-209: a call of get_code_message under checksum sum; fails says
\* that _get_code_message raises.  The assignment of line 207 is done when
\* line 208 raises, the one of line 208 is not.
GetCodeMessageCall(sum, stored, message, fails) ==
    IF Recompute(sum, stored, message)
    THEN IF fails
         THEN [raised |-> TRUE, recomputed |-> TRUE, message |-> NoValue,
               feature_checksum |-> sum, code_message |-> message]
         ELSE [raised |-> FALSE, recomputed |-> TRUE, message |-> sum,
               feature_checksum |-> sum, code_message |-> sum]
    ELSE [raised |-> FALSE, recomputed |-> FALSE, message |-> message,
          feature_checksum |-> stored, code_message |-> message]

InitMessage ==
    /\ OthersIdle
    /\ FilterIdle
    /\ PrinterIdle
    /\ IntervalIdle
    /\ pc = "feature"
    /\ checksum \in Checksums
    /\ feature_checksum = NoValue
    /\ code_message = NoValue
    /\ returned = <<>>
    /\ calls = 0

\* The file, the level or the diff of the feature changes between two calls.
ChangeChecksum ==
    /\ \E sum \in Checksums \ {checksum} : checksum' = sum
    /\ UNCHANGED <<feature_checksum, code_message, returned, calls>>
    /\ UNCHANGED <<edit_vars, parser_vars, writer_vars, filter_vars,
                   printer_vars, interval_vars>>

\* get_code_message(), lines 204-209.
GetCodeMessage ==
    /\ calls < MaxCalls
    /\ \E fails \in BOOLEAN :
         LET out == GetCodeMessageCall(checksum, feature_checksum, code_message, fails)
         IN  /\ feature_checksum' = out.feature_checksum
             /\ code_message' = out.code_message
             /\ returned' = <<[raised |-> out.raised, recomputed |-> out.recomputed,
                               message |-> out.message, checksum |-> checksum,
                               stored |-> feature_checksum, cached |-> code_message]>>
    /\ calls' = calls + 1
    /\ UNCHANGED checksum
    /\ UNCHANGED <<edit_vars, parser_vars, writer_vars, filter_vars,
                   printer_vars, interval_vars>>

NextMessage == ChangeChecksum \/ GetCodeMessage

SpecMessage == InitMessage /\ [][NextMessage]_vars

\* =============================================================== intervals
\* split_file_into_intervals (src/mentat/code_feature.py).  A tag is the
\* scope, the name and the line number of a ctags entry (kind and signature
\* are not read); "None" stands for a scope or a name that is missing.  A
\* feature is the name and the interval start-end it is built from; the
\* feature of the whole file has the interval 0-inf.
MaxTags == 4

MaxTagLine == 4

MaxMinLines == 2

MIN_INTERVAL_LINES == 10

Tag(scope, name, line) == [scope |-> scope, name |-> name, line |-> line]

Interval(name, start, end) == [name |-> name, start |-> start, end |-> end]

\* CodeFeature(path): the feature given to the call.
WholeFile == Interval("None", 0, "inf")

\* Line 36: sorted(ctags, key=lambda x: int(x[4])), a stable sort.
RECURSIVE SortedByLine(_, _, _)
SortedByLine(tags, line, top) ==
    IF line > top THEN <<>>
    ELSE SelectSeq(tags, LAMBDA t : t.line = line) \o SortedByLine(tags, line + 1, top)

\* Lines 43-45: key = name, or scope.name.
Key(tag) == IF tag.scope # "None" THEN <<tag.scope, tag.name>> ELSE <<tag.name>>

\* Line 48: min_lines or MIN_INTERVAL_LINES.
MinLines(min) == IF min = NoValue THEN MIN_INTERVAL_LINES ELSE min

\* Lines 39-60: the loop over the sorted tags from tag i on; last is
\* _last_item (<<>> while empty), found is named_intervals.
RECURSIVE NamedIntervals(_, _, _, _, _, _)
NamedIntervals(tags, i, last, min, found, n) ==
    IF i > Len(tags) THEN found
    ELSE LET tag == tags[i]
         IN  IF tag.name = "None"
             THEN NamedIntervals(tags, i + 1, last, min, found, n)
             ELSE LET merged == last # <<>> /\ tag.line - last[2] < MinLines(min)
                      closed == last # <<>> /\ ~merged
                      start  == IF last = <<>> THEN 0
                                ELSE IF merged THEN last[2] ELSE tag.line
                      named  == IF closed
                                THEN Append(found, Interval(last[1], last[2], tag.line - 1))
                                ELSE found
                      min2   == IF last # <<>> THEN MinLines(min) ELSE min
                  IN  IF i = Len(tags)
                      THEN Append(named, Interval(Key(tag), start, n))
                      ELSE NamedIntervals(tags, i + 1, <<Key(tag), start>>, min2, named, n)

\* Lines 21-80: the features returned.
SplitFileIntoIntervals(tags, n, min, lvl) ==
    IF lvl # "code" THEN <<WholeFile>>
    ELSE LET found == NamedIntervals(SortedByLine(tags, 1, n), 1, <<>>, min, <<>>, n)
         IN  IF Len(found) <= 1 THEN <<WholeFile>> ELSE found

TagKinds == {<<"None", "None">>, <<"None", "f">>, <<"S", "f">>}

InitIntervals ==
    /\ OthersIdle
    /\ FilterIdle
    /\ PrinterIdle
    /\ MessageIdle
    /\ pc = "file"
    /\ features = <<>>
    /\ level \in {"code", "interval"}
    /\ min_lines \in {NoValue} \cup 1..MaxMinLines
    /\ n_lines \in 1..MaxTagLine
    /\ \E k \in 0..MaxTags :
         \E kinds \in [1..k -> TagKinds], lines \in [1..k -> 1..n_lines] :
           ctags = [i \in 1..k |-> Tag(kinds[i][1], kinds[i][2], lines[i])]

\* split_file_into_intervals(git_root, feature, min_lines).
Split ==
    /\ pc = "file"
    /\ features' = SplitFileIntoIntervals(ctags, n_lines, min_lines, level)
    /\ pc' = "split"
    /\ UNCHANGED <<ctags, n_lines, min_lines, level>>
    /\ UNCHANGED <<replacements, file_lines, result, index, other, resolved,
                   emitted, stored_lines, parser_vars, writer_vars,
                   filter_vars, printer_vars, message_vars>>

NextIntervals == Split

SpecIntervals == InitIntervals /\ [][NextIntervals]_vars

\* =================================================================== claims
Width(r) == r.ending_line - r.starting_line

IsInsertion(r) == r.starting_line = r.ending_line

\* No two distinct Replacements of the list overlap (the test of line 178).
NoRangeOverlap(reps) ==
    \A i, j \in 1..Len(reps) : i # j => ~Overlap(reps[i], reps[j])

\* No two distinct Replacements are insertions at the same point.
NoInsertionCollision(reps) ==
    \A i, j \in 1..Len(reps) :
        i # j => ~(/\ IsInsertion(reps[i]) /\ IsInsertion(reps[j])
                   /\ reps[i].starting_line = reps[j].starting_line)

WithinBuffer(reps, buf) ==
    \A i \in 1..Len(reps) : reps[i].ending_line <= Len(buf)

Returned == pc \in {"applied", "raised"}

\* new_lines of the Replacements of reps picked by the index set S (<<>> if none).
NewLinesOf(reps, S) == IF S = {} THEN <<>> ELSE reps[CHOOSE i \in S : TRUE].new_lines

\* The buffer with every Replacement placed at its range in the ORIGINAL
\* buffer: before original line p come the insertion at p, then the
\* new_lines of the range that starts at p, then line p itself unless some
\* range covers it.
RECURSIVE PlacedFrom(_, _, _)
PlacedFrom(buf, reps, p) ==
    IF p > Len(buf) THEN <<>>
    ELSE LET ins   == {i \in 1..Len(reps) : IsInsertion(reps[i]) /\ reps[i].starting_line = p}
             rep   == {i \in 1..Len(reps) : ~IsInsertion(reps[i]) /\ reps[i].starting_line = p}
             cover == {i \in 1..Len(reps) : reps[i].starting_line <= p /\ p < reps[i].ending_line}
             keep  == IF p < Len(buf) /\ cover = {} THEN <<buf[p + 1]>> ELSE <<>>
         IN  NewLinesOf(reps, ins) \o NewLinesOf(reps, rep) \o keep
             \o PlacedFrom(buf, reps, p + 1)

\* C1: for Replacements inside the buffer, free of range overlap and of
\* insertion collisions, get_updated_file_lines returns the original buffer
\* with each Replacement's new_lines placed where its range was.
C1_AppliedAtOriginalIndices ==
    (/\ Returned
     /\ WithinBuffer(emitted, stored_lines)
     /\ NoRangeOverlap(emitted)
     /\ NoInsertionCollision(emitted))
    => /\ pc = "applied"
       /\ result = PlacedFrom(stored_lines, emitted, 0)

\* buffer [a,b,c] with (1,2,[N1]) gives [a,N1,c]
C1_Witness ==
    /\ pc = "applied"
    /\ ~resolved
    /\ stored_lines = <<"a", "b", "c">>
    /\ emitted = <<Replacement(1, 2, <<"N1">>)>>
    /\ result = <<"a", "N1", "c">>

\* C2: once resolve_conflicts has run, no two Replacements overlap, and the
\* get_updated_file_lines that follows does not raise the overlap error.
C2_ResolvedHasNoOverlap ==
    /\ pc = "resolved" => NoRangeOverlap(replacements)
    /\ resolved => pc # "raised"

\* the overlapping pair (0,2) and (1,3) is resolved to (1,3), (0,1) and applied
C2_Witness ==
    /\ pc = "applied"
    /\ resolved
    /\ Len(emitted) = 2
    /\ <<emitted[1].starting_line, emitted[1].ending_line>> = <<0, 2>>
    /\ <<emitted[2].starting_line, emitted[2].ending_line>> = <<1, 3>>
    /\ <<replacements[2].starting_line, replacements[2].ending_line>> = <<0, 1>>

\* C3: get_updated_file_lines leaves the list passed in as file_lines as it
\* was, whether it returns or raises.
C3_CallerBufferUntouched ==
    Returned => file_lines = stored_lines

Precedes(a, b) ==
    \/ a.ending_line > b.ending_line
    \/ a.ending_line = b.ending_line /\ a.starting_line >= b.starting_line

\* The list is as a sort has just left it: after get_updated_file_lines, or
\* in resolve_conflicts before the first pass of the loop body.
JustSorted ==
    \/ Returned
    \/ pc = "resolving" /\ index = 1 /\ other = 2

\* C5: after the sort of resolve_conflicts and of get_updated_file_lines,
\* every Replacement that precedes another has the greater ending_line, or
\* the same ending_line and a starting_line at least as great.
C5_SortedByEndThenStart ==
    JustSorted =>
        \A i, j \in 1..Len(replacements) :
            i < j => Precedes(replacements[i], replacements[j])

\* 1-based position of the first occurrence of line x in lines (0 if none)
RECURSIVE PositionFrom(_, _, _)
PositionFrom(lines, x, k) ==
    IF k > Len(lines) THEN 0
    ELSE IF lines[k] = x THEN k
    ELSE PositionFrom(lines, x, k + 1)

Position(lines, x) == PositionFrom(lines, x, 1)

\* Two insertions at the same point, each with content, emitted in this order.
InsertionCollision ==
    /\ Len(emitted) = 2
    /\ IsInsertion(emitted[1])
    /\ IsInsertion(emitted[2])
    /\ emitted[1].starting_line = emitted[2].starting_line
    /\ emitted[1].new_lines # <<>>
    /\ emitted[2].new_lines # <<>>
    /\ emitted[1].new_lines # emitted[2].new_lines

\* C6: of two insertions at the same line, resolve_conflicts keeps both and,
\* once applied, the content of the later-emitted one comes after the content
\* of the other in the resulting buffer.
C6_LaterInsertionComesAfter ==
    (resolved /\ Returned /\ InsertionCollision)
    => /\ pc = "applied"
       /\ Len(replacements) = 2
       /\ Position(result, emitted[1].new_lines[1]) > 0
       /\ Position(result, emitted[2].new_lines[1])
            > Position(result, emitted[1].new_lines[1])

\* block occurs in lines as a run of consecutive lines, in order
Contains(lines, block) ==
    \E k \in 0..(Len(lines) - Len(block)) :
        SubSeq(lines, k + 1, k + Len(block)) = block

\* as many Replacements of reps carry the lines n as of emitted
SameCount(reps, n) ==
    Cardinality({i \in 1..Len(reps) : reps[i].new_lines = n})
        = Cardinality({i \in 1..Len(emitted) : emitted[i].new_lines = n})

\* Every Replacement is still in the list with its new_lines, and after
\* resolve_conflicts and get_updated_file_lines each new_lines is a block of
\* consecutive lines of the result.
ContentKept ==
    /\ Len(replacements) = Len(emitted)
    /\ \A k \in 1..Len(emitted) : SameCount(replacements, emitted[k].new_lines)
    /\ (resolved /\ Returned) =>
          /\ pc = "applied"
          /\ \A k \in 1..Len(emitted) : Contains(result, emitted[k].new_lines)

\* A pass of the loop of resolve_conflicts changes nothing but the range of
\* `other`, and never widens it.
OnlyOtherShrinks ==
    pc = "resolving" =>
        /\ \A i \in 1..Len(replacements) :
              /\ replacements'[i].new_lines = replacements[i].new_lines
              /\ (i # other) => (replacements'[i] = replacements[i])
        /\ Width(replacements'[other]) <= Width(replacements[other])

\* C7: resolve_conflicts keeps every Replacement with its new_lines (an
\* overlap only shrinks the range of the later-sorted one), and after
\* resolve_conflicts and get_updated_file_lines the new_lines of every
\* Replacement are a block of consecutive lines of the result.
C7_NoContentDropped == []ContentKept /\ [][OnlyOtherShrinks]_vars

\* two overlapping Replacements of two lines each, resolved and applied
C7_Witness ==
    /\ pc = "applied"
    /\ resolved
    /\ Len(emitted) = 2
    /\ Overlap(emitted[1], emitted[2])
    /\ replacements # SortReverse(emitted)
    /\ \A k \in 1..2 : Len(emitted[k].new_lines) = 2
    /\ \A k \in 1..2 : Contains(result, emitted[k].new_lines)

\* C8: in resolve_conflicts, at every step and at its end, every Replacement
\* has 0 <= starting_line <= ending_line.
C8_RangesNeverInvert ==
    \A i \in 1..Len(replacements) :
        /\ 0 <= replacements[i].starting_line
        /\ replacements[i].starting_line <= replacements[i].ending_line

\* (1,2) lies inside (0,3): truncated to (0,0), its start clamped from 1 to 0
C8_Witness ==
    /\ pc = "resolved"
    /\ Len(emitted) = 2
    /\ <<emitted[1].starting_line, emitted[1].ending_line>> = <<0, 3>>
    /\ <<emitted[2].starting_line, emitted[2].ending_line>> = <<1, 2>>
    /\ <<replacements[2].starting_line, replacements[2].ending_line>> = <<0, 0>>

IndexPermutations(n) ==
    {p \in [1..n -> 1..n] : \A i, j \in 1..n : i # j => p[i] # p[j]}

Permuted(reps, p) == [i \in 1..Len(reps) |-> reps[p[i]]]

\* p keeps the relative order of the insertions that share a point
KeepsCollisionOrder(reps, p) ==
    \A i, j \in 1..Len(reps) :
        (/\ i < j
         /\ IsInsertion(reps[p[i]]) /\ IsInsertion(reps[p[j]])
         /\ reps[p[i]].starting_line = reps[p[j]].starting_line)
        => p[i] < p[j]

\* get_updated_file_lines on the permuted list gives what this call gave
SameOutcome(p) ==
    LET out == GetUpdatedFileLines(Permuted(emitted, p), stored_lines)
    IN  /\ out.raised = (pc = "raised")
        /\ out.lines = result

\* C9 as stated: for a list free of range overlap, every permutation of the
\* list gives the same buffer.
C9_AnyPermutationSameBuffer ==
    (Returned /\ ~resolved /\ NoRangeOverlap(emitted))
    => \A p \in IndexPermutations(Len(emitted)) : SameOutcome(p)

\* C9 amended: for a list free of range overlap, every permutation that keeps
\* the relative order of insertions at the same point gives the same buffer.
C9_PermutationSameBuffer ==
    (Returned /\ ~resolved /\ NoRangeOverlap(emitted))
    => /\ pc = "applied"
       /\ \A p \in IndexPermutations(Len(emitted)) :
              KeepsCollisionOrder(emitted, p) => SameOutcome(p)

\* two Replacements given lowest first, so that the sort has to swap them
C9_Witness ==
    /\ pc = "applied"
    /\ ~resolved
    /\ Len(emitted) = 2
    /\ NoRangeOverlap(emitted)
    /\ emitted[1].ending_line < emitted[2].ending_line
    /\ replacements = <<emitted[2], emitted[1]>>
    /\ emitted[1].new_lines # <<>>
    /\ emitted[2].new_lines # <<>>
    /\ result # stored_lines

\* One Replacement whose new_lines are the lines its range covers.
RoundTrip ==
    /\ Len(emitted) = 1
    /\ emitted[1].new_lines
         = PySlice(stored_lines, emitted[1].starting_line, emitted[1].ending_line)

\* C10 as stated: a single Replacement with new_lines equal to
\* buffer[starting_line:ending_line] gives back the input buffer.
C10_RoundTripAnyRange ==
    (Returned /\ ~resolved /\ RoundTrip)
    => (pc = "applied" /\ result = stored_lines)

\* C10 amended: the same, for a Replacement that starts at or before the end
\* of the buffer.
C10_RoundTrip ==
    (Returned /\ ~resolved /\ RoundTrip
        /\ emitted[1].starting_line <= Len(stored_lines))
    => (pc = "applied" /\ result = stored_lines)

\* a range that starts inside the buffer and ends past it
C10_Witness ==
    /\ pc = "applied"
    /\ ~resolved
    /\ RoundTrip
    /\ emitted[1].new_lines # <<>>
    /\ emitted[1].starting_line < Len(stored_lines)
    /\ emitted[1].ending_line > Len(stored_lines)
    /\ result = stored_lines

\* The greatest ending_line of the list (0 for the empty list).
RECURSIVE MaxEnding(_, _)
MaxEnding(reps, k) ==
    IF k > Len(reps) THEN 0
    ELSE LET m == MaxEnding(reps, k + 1)
         IN  IF reps[k].ending_line > m THEN reps[k].ending_line ELSE m

\* The buffer followed by empty lines up to exactly n lines.
ExtendedTo(buf, n) == buf \o EmptyLines(n - Len(buf))

\* C11: when an ending_line is past the end of the buffer, the buffer is
\* first extended with empty lines up to exactly that ending_line and then
\* spliced: every Replacement lands at its range in the extended buffer, and
\* a single insertion at line k > n gives the n lines, k-n empty lines, then
\* the new_lines.
C11_PaddedThenSpliced ==
    (/\ Returned
     /\ ~resolved
     /\ NoRangeOverlap(emitted)
     /\ NoInsertionCollision(emitted)
     /\ MaxEnding(emitted, 1) > Len(stored_lines))
    => /\ pc = "applied"
       /\ result = PlacedFrom(ExtendedTo(stored_lines, MaxEnding(emitted, 1)), emitted, 0)
       /\ (Len(emitted) = 1 /\ IsInsertion(emitted[1]))
            => result = stored_lines
                        \o EmptyLines(emitted[1].starting_line - Len(stored_lines))
                        \o emitted[1].new_lines

\* a one-line file with (0,1,[N1,M1]) and (2,2,[N2,M2]) becomes [N1,M1,"",N2,M2]
C11_Witness ==
    /\ pc = "applied"
    /\ ~resolved
    /\ stored_lines = <<"a">>
    /\ Len(emitted) = 2
    /\ <<emitted[1].starting_line, emitted[1].ending_line>> = <<0, 1>>
    /\ <<emitted[2].starting_line, emitted[2].ending_line>> = <<2, 2>>
    /\ result = <<"N1", "M1", "", "N2", "M2">>

\* ------------------------------------------------------------ parser claims
Parsed == pc = "parsed"

NotFound == "Original lines not found"

InvalidFormat == "Invalid diff format given"

\* The change groups of the block that was parsed.
Groups == SplitChanges(code_block, 1, <<>>, <<>>)

\* Some change group has search lines that do not occur in the buffer.
SomeGroupNotFound ==
    /\ ~Groups.invalid
    /\ \E c \in 1..Len(Groups.changes) :
         /\ SearchLines(Groups.changes[c], 1) # <<>>
         /\ MatchingIndex(file_lines, SearchLines(Groups.changes[c], 1)) = -1

BadLine(line) ==
    /\ line # <<>>
    /\ line \notin {MidChange, EndChange}
    /\ line[1] \notin {"+", "-", " "}

Rejected == error = InvalidFormat /\ replacements = emitted

\* C13 as stated: a bad line anywhere in the block makes _add_code_block
\* return the invalid-format error and add no Replacement.
C13_BadLineAnywhereRejected ==
    (Parsed /\ \E k \in 1..Len(code_block) : BadLine(code_block[k])) => Rejected

\* C13: a bad line that occurs before the first '@@end' line of the block
\* makes _add_code_block return the invalid-format error and add no
\* Replacement to the FileEdit.
C13_BadLineBeforeEndRejected ==
    (/\ Parsed
     /\ \E k \in 1..Len(code_block) :
          /\ BadLine(code_block[k])
          /\ \A j \in 1..(k - 1) : code_block[j] # EndChange)
    => Rejected

\* The bad line is the last line, after a complete group and a separator.
C13_Witness ==
    /\ Parsed
    /\ code_block = <<PatchLine("add", 1), MidChange, PatchLine("bad", 3)>>
    /\ emitted # <<>>
    /\ Rejected

IsContext(line) == line[1] = " "

IsRemoval(line) == line[1] = "-"

IsAddition(line) == line[1] = "+"

\* The lines of a change that carry a marker.
Marked(change) == SelectSeq(change, LAMBDA line : line # <<>>)

\* A run opens at i: an addition or removal line that follows no other one.
RunOpensAt(m, i) == ~IsContext(m[i]) /\ (i = 1 \/ IsContext(m[i - 1]))

\* The last line of the maximal run that opens at i.
RunCloses(m, i) ==
    CHOOSE j \in i..Len(m) :
        /\ \A k \in i..j : ~IsContext(m[k])
        /\ j = Len(m) \/ IsContext(m[j + 1])

\* The contents of the addition lines among lines i..j, in order.
AdditionsIn(m, i, j) ==
    LET adds == SelectSeq(SubSeq(m, i, j), IsAddition)
    IN  [k \in 1..Len(adds) |-> adds[k][2]]

\* The Replacement of the run that opens at i in a change anchored at a: it
\* starts after the original lines matched before the run and covers the
\* original lines matched by the removal lines of the run.
RunReplacement(m, i, a) ==
    LET j == RunCloses(m, i)
        s == a + Cardinality({k \in 1..(i - 1) : ~IsAddition(m[k])})
        e == s + Cardinality({k \in i..j : IsRemoval(m[k])})
    IN  Replacement(s, e, AdditionsIn(m, i, j))

RECURSIVE RunsFrom(_, _, _)
RunsFrom(m, i, a) ==
    IF i > Len(m) THEN <<>>
    ELSE IF RunOpensAt(m, i)
    THEN <<RunReplacement(m, i, a)>> \o RunsFrom(m, RunCloses(m, i) + 1, a)
    ELSE RunsFrom(m, i + 1, a)

\* What the groups from the c-th on are expected to emit.  A group without
\* search lines gives what line 168 gives, or, with additions_only, one
\* Replacement (0, 0, the contents of its addition lines).
RECURSIVE ExpectedFrom(_, _, _)
ExpectedFrom(changes, c, additions_only) ==
    IF c > Len(changes) THEN <<>>
    ELSE LET change == changes[c]
             search == SearchLines(change, 1)
             m      == Marked(change)
         IN  (IF search # <<>>
              THEN RunsFrom(m, 1, MatchingIndex(file_lines, search))
              ELSE IF additions_only
              THEN <<Replacement(0, 0, AdditionsIn(m, 1, Len(m)))>>
              ELSE <<AtFileStart(change)>>)
             \o ExpectedFrom(changes, c + 1, additions_only)

\* C14: a change group anchored at a emits one Replacement per maximal run of
\* addition and removal lines, from the cursor where the run opened to the
\* cursor where it closed, with the additions of the run in order; context
\* and removal lines advance the cursor by one, addition lines do not, and a
\* group of context lines emits nothing.
C14_OneReplacementPerRun ==
    (Parsed /\ error = "")
    => replacements = emitted \o ExpectedFrom(Groups.changes, 1, FALSE)

\* A removal, a context line and an addition: two runs around the context.
C14_Witness ==
    /\ Parsed
    /\ error = ""
    /\ file_lines = Buffer(3)
    /\ emitted = <<>>
    /\ code_block = <<PatchLine("rem a", 1), PatchLine("ctx b", 2), PatchLine("add", 3)>>
    /\ replacements = <<Replacement(0, 1, <<>>), Replacement(2, 2, <<FirstLine[3]>>)>>

\* C15: a change group without removal and context lines emits exactly one
\* Replacement (0, 0, new_lines) whose new_lines are the contents of the
\* addition lines of the group, in order, also when the group is the last
\* one and no separator ends it.
C15_EmptySearchInsertsAdditions ==
    (Parsed /\ error = "")
    => replacements = emitted \o ExpectedFrom(Groups.changes, 1, TRUE)

\* C20: the FileEdit built from a header never has is_creation and
\* is_deletion both true.
C20_CreationExcludesDeletion ==
    pc \in {"code", "parsed"} => ~(file_edit.is_creation /\ file_edit.is_deletion)

\* ------------------------------------------------------------ writer claims
\* C16: a FileEdit of the batch that fails never keeps the FileEdits after
\* it from being processed: no call ends with FileEdits left in the batch.
C16_FailureNeverAborts ==
    pc = "raised" => Len(processed) = Len(file_edits)

\* The FileEdit that the next pass takes is for a file of the context whose
\* stored lines differ from the lines on disk.
NextIsStale ==
    /\ Len(processed) < Len(file_edits)
    /\ LET e == file_edits[Len(processed) + 1].edit
       IN  /\ ~e.is_creation
           /\ Exists(disk, e.file_path)
           /\ e.file_path \in include_files
           /\ cfm_file_lines[e.file_path] # NotRead
           /\ cfm_file_lines[e.file_path] # disk[e.file_path]

\* A pass on a stale FileEdit that comes to the comparison of line 116: the
\* operator is asked, and without a yes nothing on disk changes and the call
\* goes on.
StaleAsked ==
    (/\ NextIsStale
     /\ Len(processed') = Len(processed) + 1
     /\ processed'[Len(processed')].outcome # "deleted")
    => LET pass == processed'[Len(processed')]
       IN  /\ "continue" \in pass.asked
           /\ "continue" \notin pass.yes
                => /\ pass.outcome = "declined"
                   /\ disk' = disk
                   /\ include_files' = include_files
                   /\ pc' \in {"write", "done"}
           /\ disk' # disk => "continue" \in pass.yes

\* C17: for a non-creation FileEdit whose stored lines differ from the lines
\* read from disk before writing, the operator is asked, the file is renamed
\* or rewritten only on a yes, and on a no the disk is left as it was and
\* the next FileEdit is processed.
C17_StaleAskedBeforeWrite == [][StaleAsked]_vars

\* The changed f.py was declined and kept its content, and the FileEdit
\* after it was written.
C17_Witness ==
    /\ Len(processed) >= 2
    /\ file_edits[1].edit.file_path = "f.py"
    /\ processed[1].outcome = "declined"
    /\ processed[1].asked = {"continue"}
    /\ disk["f.py"] = OnDisk("stale")
    /\ processed[2].outcome = "written"

\* C18: when the rename target of a FileEdit exists, is_valid drops the
\* rename and does not fail the FileEdit for it, and write_changes_to_files
\* does not fail the FileEdit either.
C18_RenameConflictDropsRename ==
    /\ (/\ pc = "filter"
        /\ checked # <<>>
        /\ checked[1].edit.rename_file_path # NoPath
        /\ Exists(disk, checked[1].edit.rename_file_path)
        /\ checked[1].ok)
       => checked[1].rename_file_path = NoPath
    /\ \A i \in 1..Len(processed) : processed[i].outcome # RenameExisting

\* C19: is_valid returns True exactly when a creation has no file at its
\* path, a deletion has one, and a FileEdit that is no creation has a file
\* that file_lines holds.
C19_ValidIffConsistent ==
    (pc = "filter" /\ checked # <<>>)
    => LET e == checked[1].edit
       IN  checked[1].ok <=>
             /\ e.is_creation => ~Exists(disk, e.file_path)
             /\ e.is_deletion => Exists(disk, e.file_path)
             /\ ~e.is_creation => /\ Exists(disk, e.file_path)
                                  /\ cfm_file_lines[e.file_path] # NotRead

\* ------------------------------------------------------- apply, third part
\* C21: when get_updated_file_lines fails with the overlap error, the list
\* the caller passed in still holds its original lines.
C21_RaiseLeavesCallerBuffer ==
    pc = "raised" => file_lines = stored_lines

\* C23: get_updated_file_lines on an empty Replacement list returns a buffer
\* equal to the buffer it was given.
C23_EmptyListReturnsBuffer ==
    (pc = "applied" /\ emitted = <<>>) => result = stored_lines

\* The three-line buffer went through an empty list.
C23_Witness ==
    /\ pc = "applied"
    /\ emitted = <<>>
    /\ stored_lines = Buffer(3)
    /\ result = Buffer(3)

\* The line indices of the range of a Replacement.
Indices(r) == {p \in 0..MaxLine : r.starting_line <= p /\ p < r.ending_line}

Covered(reps) == UNION {Indices(reps[i]) : i \in 1..Len(reps)}

\* C25: resolve_conflicts keeps the set of line indices that the ranges of
\* the list cover, and the range of every Replacement after it covers only
\* indices its range covered before; the list is compared with the list as
\* line 175 sorted it.
C25_ResolveKeepsCoveredLines ==
    pc = "resolved"
    => /\ Covered(replacements) = Covered(emitted)
       /\ \A i \in 1..Len(replacements) :
            Indices(replacements[i]) \subseteq Indices(SortReverse(emitted)[i])

\* (0,2) and (1,3): the first is cut to (0,1), lines 0..2 stay covered.
C25_Witness ==
    /\ pc = "resolved"
    /\ Len(emitted) = 2
    /\ <<emitted[1].starting_line, emitted[1].ending_line>> = <<0, 2>>
    /\ <<emitted[2].starting_line, emitted[2].ending_line>> = <<1, 3>>
    /\ <<replacements[2].starting_line, replacements[2].ending_line>> = <<0, 1>>
    /\ Covered(replacements) = {0, 1, 2}

\* ------------------------------------------------------------ filter claims
\* The Replacements of the list that are proposed at the positions of S.
AcceptedAt == {i \in 1..Len(answers) : answers[i]}

\* The j-th smallest position of S.
NthOf(S, j) == CHOOSE i \in S : Cardinality({x \in S : x < i}) = j - 1

\* The FileEdit as proposed is no creation and no deletion.
PlainEdit == ~file_edit.is_creation /\ ~file_edit.is_deletion

\* C22: after filter_replacements on a FileEdit that is no creation and no
\* deletion, the list holds the accepted Replacements, as proposed and in the
\* order proposed; the call returns True exactly when a rename or a
\* Replacement remains; and the buffer get_updated_file_lines gives for the
\* list holds the new_lines of every accepted Replacement and no line of a
\* rejected one.
C22_FilterKeepsAccepted ==
    (PlainEdit /\ kept # <<>>)
    => /\ pc \in {"start", "dropped"}
          => /\ Len(answers) = Len(emitted)
             /\ Len(replacements) = Cardinality(AcceptedAt)
             /\ \A j \in 1..Len(replacements) :
                  replacements[j] = emitted[NthOf(AcceptedAt, j)]
             /\ kept[1] <=> (file_edit.rename_file_path # NoPath \/ Len(replacements) > 0)
       /\ pc = "applied"
          => \A i \in 1..Len(emitted) :
               IF answers[i]
               THEN Contains(result, emitted[i].new_lines)
               ELSE \A k \in 1..Len(emitted[i].new_lines) :
                      \A p \in 1..Len(result) : result[p] # emitted[i].new_lines[k]

\* The first of two proposed Replacements was kept, the second rejected, and
\* the buffer holds the lines of the first only.
C22_Witness ==
    /\ PlainEdit
    /\ pc = "applied"
    /\ answers = <<TRUE, FALSE>>
    /\ kept = <<TRUE>>
    /\ <<emitted[1].starting_line, emitted[1].ending_line>> = <<0, 1>>
    /\ <<emitted[2].starting_line, emitted[2].ending_line>> = <<1, 1>>
    /\ result = <<FirstLine[1], SecondLine[1]>> \o SubSeq(stored_lines, 2, Len(stored_lines))

\* ---------------------------------------------------------------------- C24
\* The contents of the context and addition lines of a change, in order.
RECURSIVE KeptLines(_, _)
KeptLines(change, k) ==
    IF k > Len(change) THEN <<>>
    ELSE (IF StartsWith(change[k], " ") \/ StartsWith(change[k], "+")
          THEN <<Content(change[k])>> ELSE <<>>)
         \o KeptLines(change, k + 1)

\* The block holds one change group, and its search lines are not empty.
OneGroup ==
    LET split == SplitChanges(code_block, 1, <<>>, <<>>)
    IN  /\ ~split.invalid
        /\ Len(split.changes) = 1
        /\ SearchLines(split.changes[1], 1) # <<>>

TheGroup == SplitChanges(code_block, 1, <<>>, <<>>).changes[1]

\* C24: when a FileEdit that held nothing receives one change group whose
\* search lines are found at anchor a, resolving and applying what the parser
\* emitted gives buffer[:a], then the contents of the context and addition
\* lines of the group in their order, then buffer[a + len(search):].
C24_GroupAppliedAtAnchor ==
    (pc \in {"applied", "raised"} /\ code_block # <<>> /\ emitted = <<>> /\ OneGroup) =>
        LET search == SearchLines(TheGroup, 1)
            a      == MatchingIndex(stored_lines, search)
        IN  /\ a # -1
            /\ pc = "applied"
            /\ result = PySlice(stored_lines, 0, a)
                          \o KeptLines(TheGroup, 1)
                          \o PySlice(stored_lines, a + Len(search), Len(stored_lines))

\* A group "addition, removal of b, addition" has been applied to a buffer
\* that holds b at index 1 and a line after it.
C24_Witness ==
    /\ pc = "applied"
    /\ emitted = <<>>
    /\ code_block = <<PatchLine("add", 1), PatchLine("rem b", 2), PatchLine("add", 3)>>
    /\ Len(stored_lines) >= 3
    /\ MatchingIndex(stored_lines, <<"b">>) = 1
    /\ result = <<stored_lines[1], FirstLine[1], FirstLine[3]>>
                  \o PySlice(stored_lines, 2, Len(stored_lines))

\* ---------------------------------------------------------------------- C26
\* A pass of the loop: a file leaves the disk only by the deletion the
\* operator confirmed or by the rename of the FileEdit; after a no to the
\* deletion the file is there, a changed file is asked about, and unless
\* that is declined or a check raises, the Replacements are written.
DeletionConfirmed ==
    Len(processed') = Len(processed) + 1
    => LET i    == Len(processed')
           item == file_edits[i]
           e    == item.edit
           pass == processed'[i]
           path == file_edits'[i].edit.file_path
       IN  /\ pass.outcome = "deleted"
                => /\ e.is_deletion
                   /\ "delete" \in pass.yes
           /\ \A p \in Paths :
                (Exists(disk, p) /\ ~Exists(disk', p))
                => /\ p = e.file_path
                   /\ \/ pass.outcome = "deleted" /\ "delete" \in pass.yes
                      \/ /\ e.rename_file_path # NoPath
                         /\ Exists(disk', e.rename_file_path)
           /\ ("delete" \in pass.asked /\ "delete" \notin pass.yes)
                => /\ pass.outcome # "deleted"
                   /\ Exists(disk', path)
                   /\ (~e.is_creation /\ cfm_file_lines[e.file_path] # disk[e.file_path])
                        => "continue" \in pass.asked
                   /\ (/\ pass.outcome \notin Raises \cup {"declined"}
                       /\ item.replacements # <<>>)
                        => /\ pass.outcome = "written"
                           /\ disk'[path] = item.replacements[1].new_lines

\* C26: write_changes_to_files deletes a file only after the operator said
\* yes to the deletion prompt for it; after a no the file is kept and the
\* staleness check, the rename and the Replacements of the FileEdit are
\* still processed.
C26_DeletionOnlyOnYes == [][DeletionConfirmed]_vars

\* The deletion of f.py was refused, and the Replacement that came with it
\* was written to the file.
C26_Witness ==
    /\ Len(processed) >= 1
    /\ file_edits[1].edit.is_deletion
    /\ file_edits[1].edit.file_path = "f.py"
    /\ processed[1].asked = {"delete"}
    /\ processed[1].yes = {}
    /\ processed[1].outcome = "written"
    /\ disk["f.py"] = <<FirstLine[1]>>

\* ---------------------------------------------------------- printer claims
\* print_lines has returned without shutdown_printer: every entry that was
\* queued has been sent once, in the order queued.
AllSentInOrder ==
    (pc = "returned" /\ ~shutdown) => (sent = queued /\ strings_to_print = <<>>)

\* C27: once wrap_it_up has been called and shutdown_printer is not,
\* print_lines eventually returns; it returns only after every character
\* queued before wrap_it_up has been sent exactly once in the order queued;
\* add_string after wrap_it_up queues nothing.
C27_WrapUpDrainsThenReturns ==
    /\ (finishing /\ ~shutdown) ~> (pc = "returned" \/ shutdown)
    /\ []AllSentInOrder
    /\ [][finishing => queued' = queued]_vars

\* print_lines returned after wrap_it_up with three entries sent, the first
\* and the last of them carrying the codes of a colour.
C27_Witness ==
    /\ pc = "returned"
    /\ finishing
    /\ ~shutdown
    /\ Len(sent) = MaxChars
    /\ sent = queued
    /\ sent[1][1] = ColorPrefix("red")
    /\ sent[MaxChars][3] = ColorSuffix("red")

\* C28 as stated: at every await of print_lines chars_remaining is the
\* number of entries in strings_to_print, and it is never negative.
C28_CountIsQueueLength ==
    /\ chars_remaining = Len(strings_to_print)
    /\ chars_remaining >= 0

\* C28 amended: at the sleep chars_remaining is the number of entries in
\* strings_to_print, at the send it is one more (the entry taken from the
\* queue and not yet counted off), and it is never negative.
C28_CountIsQueueLengthOrOneMore ==
    /\ chars_remaining = Len(strings_to_print) + (IF pc = "sending" THEN 1 ELSE 0)
    /\ chars_remaining >= 0

\* An entry is being sent after another one was sent, and one more is
\* still in the queue.
C28_Witness ==
    /\ pc = "sending"
    /\ Len(sent) = 1
    /\ Len(queued) = 3
    /\ Len(strings_to_print) = 1
    /\ chars_remaining = 2

\* ---------------------------------------------------------------------- C29
\* C29: every message get_code_message returns was computed while the
\* checksum of the feature had the value it has at that call, and the
\* message is recomputed exactly when the checksum differs from the stored
\* one or nothing is cached.
C29_ReturnedMessageIsCurrent ==
    returned # <<>> =>
        LET call == returned[1]
        IN  /\ ~call.raised => call.message = call.checksum
            /\ call.recomputed <=> (call.checksum # call.stored \/ call.cached = NoValue)

\* ---------------------------------------------------------------------- C30
Ascending ==
    \A i \in 1..(Len(features) - 1) : features[i].end < features[i + 1].start

Covering ==
    /\ features[1].start = 0
    /\ features[Len(features)].end = n_lines
    /\ \A i \in 1..(Len(features) - 1) : features[i + 1].start = features[i].end + 1

LongEnough ==
    \A i \in 1..(Len(features) - 1) :
        features[i].end - features[i].start + 1 >= MinLines(min_lines)

\* C30: when split_file_into_intervals returns more than one feature, the
\* intervals are in ascending order, pairwise disjoint, cover every line
\* from 0 to n_lines, and every interval but the last spans at least
\* min_lines lines, whatever the tags, tags without a name included.
C30_IntervalsPartitionFile ==
    (pc = "split" /\ Len(features) > 1) => (Ascending /\ Covering /\ LongEnough)

====
